---- MODULE Spec2Model ----
(***************************************************************************)
(* PaymentFlow API (Project Fortress): the request validator, the rate     *)
(* limiters, the payment routes and the error handler.                     *)
(*                                                                         *)
(* JavaScript values are records [t, n, s]: t is the typeof tag            *)
(* ("undefined", "null", "number", "string", "object"), n the value of a   *)
(* number in thousandths (so 12.34 is 12340), s the characters of a        *)
(* string (a sequence of one-character strings).                           *)
(***************************************************************************)
EXTENDS Integers, Sequences, FiniteSets, TLC

\* ------------------------------------------------------------------------
\* JavaScript values
\* ------------------------------------------------------------------------
Undefined == [t |-> "undefined", n |-> 0, s |-> << >>]
Null == [t |-> "null", n |-> 0, s |-> << >>]
Num(k) == [t |-> "number", n |-> k, s |-> << >>]
Str(cs) == [t |-> "string", n |-> 0, s |-> cs]

\* !v is false: ToBoolean of a value
Truthy(v) ==
    CASE v.t = "undefined" -> FALSE
      [] v.t = "null" -> FALSE
      [] v.t = "number" -> v.n # 0
      [] v.t = "string" -> v.s # << >>
      [] OTHER -> TRUE

DigitChars == {"0", "1", "2", "3", "4", "5", "6", "7", "8", "9"}

DigitVal(c) ==
    CASE c = "0" -> 0 [] c = "1" -> 1 [] c = "2" -> 2 [] c = "3" -> 3
      [] c = "4" -> 4 [] c = "5" -> 5 [] c = "6" -> 6 [] c = "7" -> 7
      [] c = "8" -> 8 [] c = "9" -> 9

DigitChar(d) ==
    CASE d = 0 -> "0" [] d = 1 -> "1" [] d = 2 -> "2" [] d = 3 -> "3"
      [] d = 4 -> "4" [] d = 5 -> "5" [] d = 6 -> "6" [] d = 7 -> "7"
      [] d = 8 -> "8" [] d = 9 -> "9"

\* a number that may be NaN
NaN == [nan |-> TRUE, v |-> 0]
Number(k) == [nan |-> FALSE, v |-> k]

RECURSIVE DropSpaces(_)
DropSpaces(cs) ==
    IF cs # << >> /\ Head(cs) = " " THEN DropSpaces(Tail(cs)) ELSE cs

RECURSIVE TakeDigits(_, _, _)
\* the value of the leading run of digits of cs, NaN when cs starts with none
TakeDigits(cs, acc, any) ==
    IF cs # << >> /\ Head(cs) \in DigitChars
    THEN TakeDigits(Tail(cs), acc * 10 + DigitVal(Head(cs)), TRUE)
    ELSE IF any THEN Number(acc) ELSE NaN

\* parseInt(cs, 10) of a string: leading white space, an optional sign, digits
ParseInt(cs) ==
    LET t == DropSpaces(cs)
        neg == t # << >> /\ Head(t) = "-"
        signed == t # << >> /\ Head(t) \in {"-", "+"}
        r == TakeDigits(IF signed THEN Tail(t) ELSE t, 0, FALSE)
    IN  IF r.nan THEN NaN ELSE Number(IF neg THEN 0 - r.v ELSE r.v)

\* parseInt of a value: undefined and the other non-strings used here
\* convert to text without a leading digit
ParseIntVal(v) == IF v.t = "string" THEN ParseInt(v.s) ELSE NaN

RECURSIVE NatChars(_)
NatChars(k) ==
    IF k < 10 THEN <<DigitChar(k)>>
    ELSE NatChars(k \div 10) \o <<DigitChar(k % 10)>>

\* String(v) of a number in thousandths
NumChars(k) ==
    LET a == IF k < 0 THEN 0 - k ELSE k
        whole == NatChars(a \div 1000)
        f == a % 1000
        frac == IF f = 0 THEN << >>
                ELSE IF f % 100 = 0 THEN <<".", DigitChar(f \div 100)>>
                ELSE IF f % 10 = 0
                     THEN <<".", DigitChar(f \div 100), DigitChar((f \div 10) % 10)>>
                ELSE <<".", DigitChar(f \div 100), DigitChar((f \div 10) % 10),
                       DigitChar(f % 10)>>
    IN  (IF k < 0 THEN <<"-">> ELSE << >>) \o whole \o frac

\* the text a value converts to where the code uses it as a string
ToChars(v) ==
    CASE v.t = "string" -> v.s
      [] v.t = "number" -> NumChars(v.n)
      [] OTHER -> <<"[", "o", "]">>

\* ------------------------------------------------------------------------
\* src/middleware/validation.js: card validators
\* ------------------------------------------------------------------------
RECURSIVE StripSeparators(_)
\* cardNumber.replace(/[\s-]/g, '')
StripSeparators(cs) ==
    IF cs = << >> THEN << >>
    ELSE IF Head(cs) \in {" ", "-"} THEN StripSeparators(Tail(cs))
    ELSE <<Head(cs)>> \o StripSeparators(Tail(cs))

\* LuhnStep without the reduction of a doubled digit above 9
LuhnStep_NoReduce(sum, c, isEven) ==
    LET digit == ParseInt(<<c>>)
        doubled == IF isEven THEN digit.v * 2 ELSE digit.v
    IN  IF sum.nan \/ digit.nan THEN NaN ELSE Number(sum.v + doubled)

\* one turn of the loop body: digit, doubling, sum
LuhnStep(sum, c, isEven) ==
    LET digit == ParseInt(<<c>>)
        doubled == IF isEven THEN digit.v * 2 ELSE digit.v
        reduced == IF isEven /\ doubled > 9 THEN doubled - 9 ELSE doubled
    IN  IF sum.nan \/ digit.nan THEN NaN ELSE Number(sum.v + reduced)

RECURSIVE LuhnLoop(_, _, _, _)
\* for (i = length - 1; i >= 0; i--)
LuhnLoop(clean, i, sum, isEven) ==
    IF i < 1 THEN sum
    ELSE LuhnLoop(clean, i - 1, LuhnStep(sum, clean[i], isEven), ~isEven)

validateCreditCard(cardNumber) ==
    LET cleanNumber == StripSeparators(cardNumber)
        sum == LuhnLoop(cleanNumber, Len(cleanNumber), Number(0), FALSE)
    IN  ~sum.nan /\ sum.v % 10 = 0

RECURSIVE SplitSlash(_, _)
\* expiryDate.split('/'): the pieces between the separators
SplitSlash(cs, cur) ==
    IF cs = << >> THEN <<cur>>
    ELSE IF Head(cs) = "/" THEN <<cur>> \o SplitSlash(Tail(cs), << >>)
    ELSE SplitSlash(Tail(cs), Append(cur, Head(cs)))

\* validateExpiryDate refusing the current month as well
validateExpiryDate_CurrentMonthExpired(expiryDate, now) ==
    LET parts == SplitSlash(expiryDate, << >>)
        month == Str(parts[1])
        year == IF Len(parts) >= 2 THEN Str(parts[2]) ELSE Undefined
        currentYear == now.year % 100
        currentMonth == now.month
        expiryYear == ParseIntVal(year)
        expiryMonth == ParseIntVal(month)
        yearBefore == ~expiryYear.nan /\ expiryYear.v < currentYear
        sameYear == ~expiryYear.nan /\ expiryYear.v = currentYear
        monthBefore == ~expiryMonth.nan /\ expiryMonth.v <= currentMonth
    IN  ~(yearBefore \/ (sameYear /\ monthBefore))

\* now is [year, month] of new Date()
validateExpiryDate(expiryDate, now) ==
    LET parts == SplitSlash(expiryDate, << >>)
        month == Str(parts[1])
        year == IF Len(parts) >= 2 THEN Str(parts[2]) ELSE Undefined
        currentYear == now.year % 100
        currentMonth == now.month
        expiryYear == ParseIntVal(year)
        expiryMonth == ParseIntVal(month)
        yearBefore == ~expiryYear.nan /\ expiryYear.v < currentYear
        sameYear == ~expiryYear.nan /\ expiryYear.v = currentYear
        monthBefore == ~expiryMonth.nan /\ expiryMonth.v < currentMonth
    IN  ~(yearBefore \/ (sameYear /\ monthBefore))

\* validateCVV with a pattern open at the top, /^\d{3,}$/
validateCVV_NoUpperLength(cvv) ==
    LET cs == ToChars(cvv)
    IN  /\ Len(cs) >= 3
        /\ \A i \in 1..Len(cs) : cs[i] \in DigitChars

\* /^\d{3,4}$/.test(cvv)
validateCVV(cvv) ==
    LET cs == ToChars(cvv)
    IN  /\ Len(cs) \in {3, 4}
        /\ \A i \in 1..Len(cs) : cs[i] \in DigitChars

\* ------------------------------------------------------------------------
\* src/middleware/validation.js: validatePayment
\* ------------------------------------------------------------------------
USD == <<"U", "S", "D">>
EUR == <<"E", "U", "R">>
GBP == <<"G", "B", "P">>
JPY == <<"J", "P", "Y">>
credit_card == <<"c", "c">>
bank_transfer == <<"b", "t">>
paypal == <<"p", "p">>

validCurrencies == {USD, EUR, GBP}
validPaymentMethods == {credit_card, bank_transfer}

\* Array.prototype.includes on an array of strings: strict equality
Includes(arr, v) == v.t = "string" /\ v.s \in arr

MsgMissing == "Missing required fields: amount, currency, and paymentMethod are required"
MsgAmount == "Amount must be a positive number"
MsgCurrency == "Currency must be one of: USD, EUR, GBP"
MsgMethod == "Payment method must be one of: credit_card, bank_transfer"
MsgCardRequired == "Card details are required for credit card payments"
MsgCardIncomplete == "Card number, expiry date, and CVV are required"
MsgCardNumber == "Invalid card number"
MsgExpiry == "Card has expired or invalid expiry date"
MsgCVV == "Invalid CVV"

\* the outcomes of a middleware: next(), a response, or an exception
Proceed == [kind |-> "next", status |-> 0, error |-> "", log |-> "", logged |-> {}]
Reject(msg, logMsg, fields) ==
    [kind |-> "respond", status |-> 400, error |-> msg, log |-> logMsg, logged |-> fields]
Throw(msg) ==
    [kind |-> "throw", status |-> 0, error |-> msg, log |-> "", logged |-> {}]

\* validateCardDetails without the CVV check
validateCardDetails_NoCvvCheck(cardDetails, now) ==
    LET cardNumber == cardDetails.cardNumber
        expiryDate == cardDetails.expiryDate
        cvv == cardDetails.cvv
    IN  IF ~Truthy(cardNumber) \/ ~Truthy(expiryDate) \/ ~Truthy(cvv)
        THEN Reject(MsgCardIncomplete, "Missing required card details", {"cardDetails"})
        ELSE IF cardNumber.t # "string"
        THEN Throw("TypeError: cardNumber.replace is not a function")
        ELSE IF ~validateCreditCard(cardNumber.s)
        THEN Reject(MsgCardNumber, "Invalid card number", {"cardNumber"})
        ELSE IF expiryDate.t # "string"
        THEN Throw("TypeError: expiryDate.split is not a function")
        ELSE IF ~validateExpiryDate(expiryDate.s, now)
        THEN Reject(MsgExpiry, "Invalid expiry date", {"expiryDate"})
        ELSE Proceed

\* the credit_card branch, after cardDetails was found present
validateCardDetails(cardDetails, now) ==
    LET cardNumber == cardDetails.cardNumber
        expiryDate == cardDetails.expiryDate
        cvv == cardDetails.cvv
    IN  IF ~Truthy(cardNumber) \/ ~Truthy(expiryDate) \/ ~Truthy(cvv)
        THEN Reject(MsgCardIncomplete, "Missing required card details", {"cardDetails"})
        ELSE IF cardNumber.t # "string"
        THEN Throw("TypeError: cardNumber.replace is not a function")
        ELSE IF ~validateCreditCard(cardNumber.s)
        THEN Reject(MsgCardNumber, "Invalid card number", {"cardNumber"})
        ELSE IF expiryDate.t # "string"
        THEN Throw("TypeError: expiryDate.split is not a function")
        ELSE IF ~validateExpiryDate(expiryDate.s, now)
        THEN Reject(MsgExpiry, "Invalid expiry date", {"expiryDate"})
        ELSE IF ~validateCVV(cvv)
        THEN Reject(MsgCVV, "Invalid CVV", {"cvv"})
        ELSE Proceed

validatePayment(body, now) ==
    LET amount == body.amount
        currency == body.currency
        paymentMethod == body.paymentMethod
        cardDetails == body.cardDetails
    IN  IF ~Truthy(amount) \/ ~Truthy(currency) \/ ~Truthy(paymentMethod)
        THEN Reject(MsgMissing, "Missing required payment fields", {"body"})
        ELSE IF amount.t # "number" \/ amount.n <= 0
        THEN Reject(MsgAmount, "Invalid amount", {"amount"})
        ELSE IF ~Includes(validCurrencies, currency)
        THEN Reject(MsgCurrency, "Invalid currency", {"currency"})
        ELSE IF ~Includes(validPaymentMethods, paymentMethod)
        THEN Reject(MsgMethod, "Invalid payment method", {"paymentMethod"})
        ELSE IF paymentMethod.s = credit_card
        THEN IF ~Truthy(cardDetails)
             THEN Reject(MsgCardRequired, "Missing card details for credit card payment", {})
             ELSE validateCardDetails(cardDetails, now)
        ELSE Proceed

\* ------------------------------------------------------------------------
\* src/middleware/rateLimit.js (errorHandler part)
\* ------------------------------------------------------------------------
\* a response handed to res.json / res.send: who wrote it, the status, the
\* shape of the body ("flat" is {success:false,error}, "nested" is
\* {error:{message,status,..}}, "data" is {success:true,data}), the message
\* and the amount of a data body (thousandths)
Response(by, status, shape, msg, amount) ==
    [by |-> by, status |-> status, shape |-> shape, error |-> msg, amount |-> amount]

\* an Error: status 0 stands for a missing status property
Err(name, status, msg) == [name |-> name, status |-> status, message |-> msg]
NoErr == Err("", 0, "")

\* errorHandler without the production branch
errorHandler_NoMasking(err, env) ==
    LET status0 == IF err.status # 0 THEN err.status ELSE 500
        message0 == IF err.message # "" THEN err.message ELSE "Internal Server Error"
        status == CASE err.name = "ValidationError" -> 400
                    [] err.name = "UnauthorizedError" -> 401
                    [] err.name = "ForbiddenError" -> 403
                    [] OTHER -> status0
        message == CASE err.name = "ValidationError" -> "Validation Error"
                     [] err.name = "UnauthorizedError" -> "Unauthorized"
                     [] err.name = "ForbiddenError" -> "Forbidden"
                     [] OTHER -> message0
    IN  Response("errorHandler", status, "nested", message, 0)

errorHandler(err, env) ==
    LET status0 == IF err.status # 0 THEN err.status ELSE 500
        message0 == IF err.message # "" THEN err.message ELSE "Internal Server Error"
        status == CASE err.name = "ValidationError" -> 400
                    [] err.name = "UnauthorizedError" -> 401
                    [] err.name = "ForbiddenError" -> 403
                    [] OTHER -> status0
        message == CASE err.name = "ValidationError" -> "Validation Error"
                     [] err.name = "UnauthorizedError" -> "Unauthorized"
                     [] err.name = "ForbiddenError" -> "Forbidden"
                     [] OTHER -> message0
        shown == IF env = "production" /\ status = 500
                 THEN "Internal Server Error" ELSE message
    IN  Response("errorHandler", status, "nested", shown, 0)

\* ------------------------------------------------------------------------
\* State
\* ------------------------------------------------------------------------
VARIABLES
    appHits,      \* hits per IP in the store of app.js `limiter`
    payHits,      \* hits per IP in the store of paymentLimiter
    failHits,     \* hits per IP in the store of failedPaymentLimiter
    seen,         \* payment-route requests per IP since the window of paymentLimiter began
    req,          \* the requests in flight, one per slot
    clock,        \* [year, month] of new Date()
    nodeEnv,      \* process.env.NODE_ENV
    arrivals,     \* requests accepted so far
    expiries,     \* window expiries so far
    admitted,     \* per limiter and IP, the requests passed on since its window began
    input,        \* argument of a validator applied on its own
    output,       \* its result
    applied       \* whether it was applied

vars == <<appHits, payHits, failHits, seen, req, clock, nodeEnv, arrivals, expiries,
          admitted, input, output, applied>>

\* bounds of the model
MaxArrivals == 4
MaxExpiries == 1
Headroom == 2
MaxCardLen == 3
MaxCvvLen == 5

IPs == {"ip1", "ip2"}

\* max of the three limiters
limiterMax == 100
paymentMax == 100
failedMax == 5

MsgTooManyRequests == "Too many requests, please try again later."
MsgTooManyPayment == "Too many payment requests, please try again later"
MsgTooManyFailed == "Too many failed payment attempts, please try again later"

\* a limiter comparing the hits before the request with max
Exceeded_BeforeIncrement(totalHits, max) == totalHits - 1 > max

\* express-rate-limit: a request is refused when the hits of its key,
\* this one included, exceed max
Exceeded(totalHits, max) == totalHits > max

\* ------------------------------------------------------------------------
\* Requests
\* ------------------------------------------------------------------------
NoCard == [t |-> "undefined", cardNumber |-> Undefined, expiryDate |-> Undefined,
           cvv |-> Undefined]
Card(number, expiry, cvv) ==
    [t |-> "object", cardNumber |-> number, expiryDate |-> expiry, cvv |-> cvv]
Body(amount, currency, method, card) ==
    [amount |-> amount, currency |-> currency, paymentMethod |-> method,
     cardDetails |-> card]
EmptyBody == Body(Undefined, Undefined, Undefined, NoCard)

Chars4242 == <<"4", "2", "4", "2", "4", "2", "4", "2", "4", "2", "4", "2", "4", "2", "4", "2">>
Chars4241 == <<"4", "2", "4", "2", "4", "2", "4", "2", "4", "2", "4", "2", "4", "2", "4", "1">>
Expiry1299 == <<"1", "2", "/", "9", "9">>
Cvv123 == <<"1", "2", "3">>
Cvv12 == <<"1", "2">>

GoodCard == Card(Str(Chars4242), Str(Expiry1299), Str(Cvv123))
\* the bodies of the POST requests of the pipeline
GoodCardBody == Body(Num(100000), Str(USD), Str(credit_card), GoodCard)
BadCvvBody ==
    Body(Num(100000), Str(USD), Str(credit_card),
         Card(Str(Chars4242), Str(Expiry1299), Str(Cvv12)))
BankNoCardBody == Body(Num(100000), Str(EUR), Str(bank_transfer), NoCard)
BankBadCardBody ==
    Body(Num(100000), Str(GBP), Str(bank_transfer),
         Card(Str(Chars4241), Str(Expiry1299), Str(Cvv12)))
NumericCardBody ==
    Body(Num(100000), Str(USD), Str(credit_card),
         Card(Num(4242000), Str(Expiry1299), Str(Cvv123)))
PostBodies == {GoodCardBody, BadCvvBody, BankNoCardBody, BankBadCardBody, NumericCardBody}

\* req.rateLimit as each limiter set it: the hits it counted for the request
\* (current), and the window of its store they fall in
NotCounted ==
    [limiter |-> [current |-> 0, window |-> 0],
     payment |-> [current |-> 0, window |-> 0],
     failed |-> [current |-> 0, window |-> 0]]

IdleReq ==
    [pc |-> "idle", ip |-> "-", route |-> "-", body |-> EmptyBody, seq |-> 0,
     trace |-> << >>, calls |-> << >>, sends |-> << >>, err |-> NoErr,
     failTotal |-> 0, rateLimit |-> NotCounted,
     stripePaymentMethod |-> "", paymentIntent |-> ""]

Event(rq, e) == [rq EXCEPT !.trace = Append(@, e)]
Send(rq, resp) == [rq EXCEPT !.sends = Append(@, resp)]
Call(rq, c) == [rq EXCEPT !.calls = Append(@, c)]
At(rq, pc) == [rq EXCEPT !.pc = pc]

\* what the client receives: the first response written; a later write finds
\* the headers sent and throws
Wire(rq) == rq.sends[1]

\* a limiter counted totalHits for the request in window w of its store
Counted(rq, tier, totalHits, w) ==
    [rq EXCEPT !.rateLimit[tier] = [current |-> totalHits, window |-> w]]

\* the limiter passed the request on: it called next()
PassedOn(rq, e) == \E i \in DOMAIN rq.trace : rq.trace[i] = e
Admit(count, rq, e) == IF PassedOn(rq, e) THEN count + 1 ELSE count

\* ------------------------------------------------------------------------
\* The gateway (stripe): calls and their outcomes
\* ------------------------------------------------------------------------
\* stripe errors carry statusCode, type and message, and no status property
CardDeclined == Err("Error", 0, "Your card was declined.")
NoSuchIntent == Err("Error", 0, "No such payment_intent")
HandlerTypeError == Err("TypeError", 0, "Cannot read properties of undefined")
ValidatorTypeError == Err("TypeError", 0, "cardNumber.replace is not a function")

GatewayCall(op, card, amount, currency, ref) ==
    [op |-> op, card |-> card, amount |-> amount, currency |-> currency, ref |-> ref]

LowerChar(c) ==
    CASE c = "U" -> "u" [] c = "S" -> "s" [] c = "D" -> "d" [] c = "E" -> "e"
      [] c = "R" -> "r" [] c = "G" -> "g" [] c = "B" -> "b" [] c = "P" -> "p"
      [] OTHER -> c

\* currency.toLowerCase()
toLowerCase(cs) == [i \in 1..Len(cs) |-> LowerChar(cs[i])]

\* Math.round(amount * 100) of an amount in thousandths: the nearest
\* integer, a half rounding up
RoundToCents(n) == (n + 5) \div 10

\* a response carrying paymentIntent.amount as it is, in minor units
FromCents_Undivided(c) == c * 1000

\* paymentIntent.amount / 100, in thousandths
FromCents(c) == c * 10

\* ------------------------------------------------------------------------
\* routes/payments.js and app.js: the stages of a request
\* ------------------------------------------------------------------------
\* routes/health.js
healthHandler(rq) ==
    At(Send(Event(rq, "health"), Response("health", 200, "health", "OK", 0)), "done")

\* the express final handler: no layer is left
finalHandler(rq) ==
    Send(rq, Response("finalhandler", 404, "text", "Cannot POST /api/v1/payments", 0))

\* next(err) reaching app.use(errorHandler)
passToErrorHandler(rq, err, env) ==
    Send(Event([rq EXCEPT !.err = err], "errorHandler"), errorHandler(err, env))

\* the handler of router.post('/') up to its first await
postHandler(rq) ==
    LET cardDetails == rq.body.cardDetails
        parts == SplitSlash(cardDetails.expiryDate.s, << >>)
        card == [number |-> cardDetails.cardNumber,
                 exp_month |-> ParseInt(parts[1]),
                 exp_year |-> IF Len(parts) >= 2 THEN ParseInt(parts[2]) ELSE NaN,
                 cvc |-> cardDetails.cvv]
    IN  IF ~Truthy(cardDetails) \/ cardDetails.expiryDate.t # "string"
        THEN At([Event(rq, "catch") EXCEPT !.err = HandlerTypeError], "catch")
        ELSE At(Call(Event(rq, "createPaymentMethod"),
                     GatewayCall("createPaymentMethod", card, 0, << >>, "")),
                "awaitPaymentMethod")

\* postRoute with a validator that answers 400 and goes on to the handler
postRoute_NoReturn(rq, now, env) ==
    LET v == validatePayment(rq.body, now)
    IN  CASE v.kind = "respond" ->
               postHandler(Send(Event(rq, "validatePayment:400"),
                                Response("validatePayment", v.status, "flat", v.error, 0)))
          [] v.kind = "throw" ->
               At(passToErrorHandler(Event(rq, "validatePayment:throw"),
                                     ValidatorTypeError, env),
                  "done")
          [] OTHER -> postHandler(Event(rq, "validatePayment:next"))

\* router.post('/', validatePayment, handler)
postRoute(rq, now, env) ==
    LET v == validatePayment(rq.body, now)
    IN  CASE v.kind = "respond" ->
               At(Send(Event(rq, "validatePayment:400"),
                       Response("validatePayment", v.status, "flat", v.error, 0)),
                  "done")
          [] v.kind = "throw" ->
               At(passToErrorHandler(Event(rq, "validatePayment:throw"),
                                     ValidatorTypeError, env),
                  "done")
          [] OTHER -> postHandler(Event(rq, "validatePayment:next"))

\* router.get('/:paymentIntentId') up to its await
getRoute(rq) ==
    At(Call(Event(rq, "retrievePaymentIntent"),
            GatewayCall("retrievePaymentIntent", NoCard, 0, << >>, "pi")),
       "awaitRetrieve")

\* app.use(limiter), then the routes
limiterStage(rq, totalHits) ==
    IF Exceeded(totalHits, limiterMax)
    THEN At(Send(Event(rq, "limiter:429"),
                 Response("limiter", 429, "text", MsgTooManyRequests, 0)), "done")
    ELSE IF rq.route = "HEALTH" THEN healthHandler(Event(rq, "limiter:next"))
    ELSE At(Event(rq, "limiter:next"), "paymentLimiter")

\* router.use(paymentLimiter), then the route of the request
paymentLimiterStage(rq, totalHits, now, env) ==
    IF Exceeded(totalHits, paymentMax)
    THEN At(Send(Event(rq, "paymentLimiter:429"),
                 Response("paymentLimiter", 429, "flat", MsgTooManyPayment, 0)), "done")
    ELSE IF rq.route = "POST" THEN postRoute(Event(rq, "paymentLimiter:next"), now, env)
    ELSE getRoute(Event(rq, "paymentLimiter:next"))

\* failedPaymentLimiter(req, res, next): count, then the handler or next()
failedLimiterStage(rq, totalHits) ==
    LET counted == [rq EXCEPT !.failTotal = totalHits]
    IN  IF Exceeded(totalHits, failedMax)
        THEN Send(Event(counted, "failedPaymentLimiter:429"),
                  Response("failedPaymentLimiter", 429, "flat", MsgTooManyFailed, 0))
        ELSE Event(counted, "failedPaymentLimiter:next")

\* ------------------------------------------------------------------------
\* Actions
\* ------------------------------------------------------------------------
Frame == UNCHANGED <<clock, nodeEnv, input, output, applied>>

Arrive(r, ip, route, body) ==
    /\ req[r].pc = "idle"
    /\ arrivals < MaxArrivals
    /\ arrivals' = arrivals + 1
    /\ seen' = IF route = "HEALTH" THEN seen ELSE [seen EXCEPT ![ip] = @ + 1]
    /\ req' = [req EXCEPT ![r] =
                 [IdleReq EXCEPT !.pc = "limiter", !.ip = ip, !.route = route,
                                 !.body = body, !.seq = IF route = "HEALTH" THEN 0 ELSE seen'[ip]]]
    /\ UNCHANGED <<appHits, payHits, failHits, expiries, admitted>>
    /\ Frame

Limiter(r) ==
    LET rq == req[r]
        totalHits == appHits[rq.ip] + 1
    IN  /\ rq.pc = "limiter"
        /\ appHits' = [appHits EXCEPT ![rq.ip] = totalHits]
        /\ req' = [req EXCEPT ![r] =
                     limiterStage(Counted(rq, "limiter", totalHits, expiries), totalHits)]
        /\ admitted' = [admitted EXCEPT !.limiter[rq.ip] = Admit(@, req'[r], "limiter:next")]
        /\ UNCHANGED <<payHits, failHits, seen, arrivals, expiries>>
        /\ Frame

PaymentLimiter(r) ==
    LET rq == req[r]
        totalHits == payHits[rq.ip] + 1
    IN  /\ rq.pc = "paymentLimiter"
        /\ payHits' = [payHits EXCEPT ![rq.ip] = totalHits]
        /\ req' = [req EXCEPT ![r] =
                     paymentLimiterStage(Counted(rq, "payment", totalHits, expiries),
                                         totalHits, clock, nodeEnv)]
        /\ admitted' = [admitted EXCEPT !.payment[rq.ip] =
                                          Admit(@, req'[r], "paymentLimiter:next")]
        /\ UNCHANGED <<appHits, failHits, seen, arrivals, expiries>>
        /\ Frame

\* the ids the gateway gives to payment methods
PaymentMethodIds == {"pm_1", "pm_2"}

\* the handler passing on something else than the id it was given
PaymentMethodResolves_OtherReference(r, id) ==
    LET rq == [req[r] EXCEPT !.stripePaymentMethod = id]
    IN  /\ rq.pc = "awaitPaymentMethod"
        /\ req' = [req EXCEPT ![r] =
                     At(Call(Event(rq, "createPaymentIntent"),
                             GatewayCall("createPaymentIntent", NoCard,
                                         RoundToCents(rq.body.amount.n),
                                         toLowerCase(rq.body.currency.s), "pm_1")),
                        "awaitPaymentIntent")]
        /\ UNCHANGED <<appHits, payHits, failHits, seen, arrivals, expiries, admitted>>
        /\ Frame

\* stripe.paymentMethods.create resolves with a payment method of the given
\* id: createPaymentIntent is called with stripePaymentMethod.id
PaymentMethodResolves(r, id) ==
    LET rq == [req[r] EXCEPT !.stripePaymentMethod = id]
    IN  /\ rq.pc = "awaitPaymentMethod"
        /\ req' = [req EXCEPT ![r] =
                     At(Call(Event(rq, "createPaymentIntent"),
                             GatewayCall("createPaymentIntent", NoCard,
                                         RoundToCents(rq.body.amount.n),
                                         toLowerCase(rq.body.currency.s),
                                         rq.stripePaymentMethod)),
                        "awaitPaymentIntent")]
        /\ UNCHANGED <<appHits, payHits, failHits, seen, arrivals, expiries, admitted>>
        /\ Frame

\* a handler that repeats the call that was rejected
GatewayRejects_Retry(r, e) ==
    LET rq == req[r]
        last == rq.calls[Len(rq.calls)]
    IN  /\ rq.pc \in {"awaitPaymentMethod", "awaitPaymentIntent"}
        /\ req' = [req EXCEPT ![r] = Call(Event([rq EXCEPT !.err = e], last.op), last)]
        /\ UNCHANGED <<appHits, payHits, failHits, seen, arrivals, expiries, admitted>>
        /\ Frame

\* a gateway call of the POST handler rejects: the catch block is entered
GatewayRejects(r, e) ==
    LET rq == req[r]
    IN  /\ rq.pc \in {"awaitPaymentMethod", "awaitPaymentIntent"}
        /\ req' = [req EXCEPT ![r] = At([Event(rq, "catch") EXCEPT !.err = e], "catch")]
        /\ UNCHANGED <<appHits, payHits, failHits, seen, arrivals, expiries, admitted>>
        /\ Frame

\* stripe.paymentIntents.create resolves with the amount and currency
\* submitted: the 201 response
PaymentIntentResolves(r) ==
    LET rq == [req[r] EXCEPT !.paymentIntent = "pi_1"]
        intent == rq.calls[Len(rq.calls)]
    IN  /\ rq.pc = "awaitPaymentIntent"
        /\ req' = [req EXCEPT ![r] =
                     At(Send(Event(rq, "201"),
                             Response("post", 201, "data", "", FromCents(intent.amount))),
                        "done")]
        /\ UNCHANGED <<appHits, payHits, failHits, seen, arrivals, expiries, admitted>>
        /\ Frame

RetrieveResolves(r, cents) ==
    LET rq == req[r]
    IN  /\ rq.pc = "awaitRetrieve"
        /\ req' = [req EXCEPT ![r] =
                     At(Send(Event(rq, "200"),
                             Response("get", 200, "data", "", FromCents(cents))),
                        "done")]
        /\ UNCHANGED <<appHits, payHits, failHits, seen, arrivals, expiries, admitted>>
        /\ Frame

RetrieveRejects(r, e) ==
    LET rq == req[r]
    IN  /\ rq.pc = "awaitRetrieve"
        /\ req' = [req EXCEPT ![r] = At(passToErrorHandler(rq, e, nodeEnv), "done")]
        /\ UNCHANGED <<appHits, payHits, failHits, seen, arrivals, expiries, admitted>>
        /\ Frame

\* The catch block calls failedPaymentLimiter(req, res, next) without
\* waiting for it and then next(error).  The limiter counts either within
\* the call (a store answering synchronously) or after the first await of
\* its middleware, which is after next(error) has run.
\*
\* Counting within the call: above the limit the limiter answers 429 and
\* the error handler then finds the headers sent; below it the limiter's
\* next() runs off the end of the layers (the final handler answers 404)
\* and next(error) finds no layer left.
CatchLimiterFirst(r) ==
    LET rq == req[r]
        totalHits == failHits[rq.ip] + 1
        counted == failedLimiterStage(Counted(rq, "failed", totalHits, expiries), totalHits)
    IN  /\ rq.pc = "catch"
        /\ failHits' = [failHits EXCEPT ![rq.ip] = totalHits]
        /\ req' = [req EXCEPT ![r] =
                     IF Exceeded(totalHits, failedMax)
                     THEN At(passToErrorHandler(Event(counted, "next(error)"),
                                                rq.err, nodeEnv), "done")
                     ELSE At(finalHandler(Event(counted, "next(error)")), "done")]
        /\ admitted' = [admitted EXCEPT !.failed[rq.ip] =
                                          Admit(@, req'[r], "failedPaymentLimiter:next")]
        /\ UNCHANGED <<appHits, payHits, seen, arrivals, expiries>>
        /\ Frame

\* Counting after the await: next(error) reaches the error handler first
CatchNextFirst(r) ==
    LET rq == req[r]
    IN  /\ rq.pc = "catch"
        /\ req' = [req EXCEPT ![r] =
                     At(passToErrorHandler(Event(rq, "next(error)"), rq.err, nodeEnv),
                        "failedLimiterPending")]
        /\ UNCHANGED <<appHits, payHits, failHits, seen, arrivals, expiries, admitted>>
        /\ Frame

\* a failed-attempt limiter that counts under one key for every client
FailedLimiterDeferred_OneKey(r) ==
    LET rq == req[r]
        totalHits == failHits[rq.ip] + 1
    IN  /\ rq.pc = "failedLimiterPending"
        /\ failHits' = [ip \in IPs |-> failHits[ip] + 1]
        /\ req' = [req EXCEPT ![r] =
                     At(failedLimiterStage(Counted(rq, "failed", totalHits, expiries),
                                           totalHits), "done")]
        /\ admitted' = [admitted EXCEPT !.failed[rq.ip] =
                                          Admit(@, req'[r], "failedPaymentLimiter:next")]
        /\ UNCHANGED <<appHits, payHits, seen, arrivals, expiries>>
        /\ Frame

FailedLimiterDeferred(r) ==
    LET rq == req[r]
        totalHits == failHits[rq.ip] + 1
    IN  /\ rq.pc = "failedLimiterPending"
        /\ failHits' = [failHits EXCEPT ![rq.ip] = totalHits]
        /\ req' = [req EXCEPT ![r] =
                     At(failedLimiterStage(Counted(rq, "failed", totalHits, expiries),
                                           totalHits), "done")]
        /\ admitted' = [admitted EXCEPT !.failed[rq.ip] =
                                          Admit(@, req'[r], "failedPaymentLimiter:next")]
        /\ UNCHANGED <<appHits, payHits, seen, arrivals, expiries>>
        /\ Frame

\* a window that ends without the store dropping its hits
WindowExpire_KeepsHits(tier) ==
    /\ expiries < MaxExpiries
    /\ expiries' = expiries + 1
    /\ \/ tier = "limiter" /\ \E ip \in IPs : appHits[ip] > 0
       \/ tier = "payment" /\ \E ip \in IPs : payHits[ip] > 0
       \/ tier = "failed" /\ \E ip \in IPs : failHits[ip] > 0
    /\ UNCHANGED <<appHits, payHits, failHits, seen, admitted, req, arrivals>>
    /\ Frame

\* the window of a store ends: the hits of its keys are dropped
WindowExpire(tier) ==
    /\ expiries < MaxExpiries
    /\ expiries' = expiries + 1
    /\ \/ /\ tier = "limiter" /\ \E ip \in IPs : appHits[ip] > 0
          /\ appHits' = [ip \in IPs |-> 0]
          /\ admitted' = [admitted EXCEPT !.limiter = [ip \in IPs |-> 0]]
          /\ UNCHANGED <<payHits, failHits, seen>>
       \/ /\ tier = "payment" /\ \E ip \in IPs : payHits[ip] > 0
          /\ payHits' = [ip \in IPs |-> 0]
          /\ seen' = [ip \in IPs |-> 0]
          /\ admitted' = [admitted EXCEPT !.payment = [ip \in IPs |-> 0]]
          /\ UNCHANGED <<appHits, failHits>>
       \/ /\ tier = "failed" /\ \E ip \in IPs : failHits[ip] > 0
          /\ failHits' = [ip \in IPs |-> 0]
          /\ admitted' = [admitted EXCEPT !.failed = [ip \in IPs |-> 0]]
          /\ UNCHANGED <<appHits, payHits, seen>>
    /\ UNCHANGED <<req, arrivals>>
    /\ Frame

\* the response is complete: the slot serves the next request
Finish(r) ==
    /\ req[r].pc = "done"
    /\ req' = [req EXCEPT ![r] = IdleReq]
    /\ UNCHANGED <<appHits, payHits, failHits, seen, arrivals, expiries, admitted>>
    /\ Frame

Tiers == {"limiter", "payment", "failed"}
Clocks == {[year |-> 2026, month |-> 11]}
Envs == {"production", "development"}

\* every hit of the stores is a request that was passed on
AllAdmitted == [limiter |-> appHits, payment |-> payHits, failed |-> failHits]

\* the hits of a store at the start: none, or those of a client whose
\* earlier requests of the window were all answered
Init ==
    /\ \E g \in {0, paymentMax - Headroom} :
          /\ appHits = [ip \in IPs |-> IF ip = "ip1" THEN g ELSE 0]
          /\ payHits = [ip \in IPs |-> IF ip = "ip1" THEN g ELSE 0]
          /\ seen = [ip \in IPs |-> IF ip = "ip1" THEN g ELSE 0]
    /\ \E f \in {0, failedMax - Headroom} :
          failHits = [ip \in IPs |-> IF ip = "ip1" THEN f ELSE 0]
    /\ admitted = AllAdmitted
    /\ req = [r \in {1} |-> IdleReq]
    /\ clock \in Clocks
    /\ nodeEnv \in Envs
    /\ arrivals = 0
    /\ expiries = 0
    /\ input = << >>
    /\ output = FALSE
    /\ applied = FALSE

Next ==
    \/ \E r \in DOMAIN req : \E body \in PostBodies : Arrive(r, "ip1", "POST", body)
    \/ \E r \in DOMAIN req : Arrive(r, "ip2", "POST", GoodCardBody)
    \/ \E r \in DOMAIN req, ip \in IPs, route \in {"GET", "HEALTH"} : Arrive(r, ip, route, EmptyBody)
    \/ \E r \in DOMAIN req : Limiter(r)
    \/ \E r \in DOMAIN req : PaymentLimiter(r)
    \/ \E r \in DOMAIN req, id \in PaymentMethodIds : PaymentMethodResolves(r, id)
    \/ \E r \in DOMAIN req : GatewayRejects(r, CardDeclined)
    \/ \E r \in DOMAIN req : PaymentIntentResolves(r)
    \/ \E r \in DOMAIN req : RetrieveResolves(r, 10000)
    \/ \E r \in DOMAIN req : RetrieveRejects(r, NoSuchIntent)
    \/ \E r \in DOMAIN req : CatchLimiterFirst(r)
    \/ \E r \in DOMAIN req : CatchNextFirst(r)
    \/ \E r \in DOMAIN req : FailedLimiterDeferred(r)
    \/ \E tier \in Tiers : WindowExpire(tier)
    \/ \E r \in DOMAIN req : Finish(r)

Spec == Init /\ [][Next]_vars

\* ------------------------------------------------------------------------
\* One request followed through the stages, for every body of a bounded set
\* ------------------------------------------------------------------------
Expiry1220 == <<"1", "2", "/", "2", "0">>
ExpiryNoSlash == <<"1", "2", "9", "9">>

\* amounts in thousandths: 100, 19.99 and 10.007 among the positive ones.  No
\* amount ends in 5 thousandths: its product with 100 in binary floating
\* point may fall on either side of the half.
AmountValues ==
    {Undefined, Null, Num(0), Num(0 - 5000), Num(100000), Num(19990), Num(10007),
     Str(<<"5">>)}
CurrencyValues == {Undefined, Str(<< >>), Str(USD), Str(JPY), Num(1000)}
MethodValues == {Undefined, Str(credit_card), Str(bank_transfer), Str(paypal)}
CardNumberValues == {Undefined, Str(Chars4242), Str(Chars4241), Str(<<"-">>), Num(4242000)}
ExpiryValues == {Undefined, Str(Expiry1299), Str(Expiry1220), Str(ExpiryNoSlash), Num(1299000)}
CvvValues == {Undefined, Str(Cvv123), Str(Cvv12), Num(123000)}
CardValues ==
    {NoCard} \cup {Card(n, e, c) : n \in CardNumberValues, e \in ExpiryValues, c \in CvvValues}
RequestBodies ==
    {Body(a, c, m, d) : a \in AmountValues, c \in CurrencyValues, m \in MethodValues,
                        d \in CardValues}

NoOutput == [kind |-> "none", status |-> 0, error |-> "", log |-> "", logged |-> {}]

InitRequest ==
    /\ \E a \in {0, limiterMax} : appHits = [ip \in IPs |-> a]
    /\ \E p \in {0, paymentMax} : payHits = [ip \in IPs |-> p] /\ seen = [ip \in IPs |-> p + 1]
    /\ \E f \in {0, failedMax} : failHits = [ip \in IPs |-> f]
    /\ admitted = AllAdmitted
    /\ \/ \E body \in RequestBodies :
             req = [r \in {1} |-> [IdleReq EXCEPT !.pc = "limiter", !.ip = "ip1",
                                                  !.route = "POST", !.body = body,
                                                  !.seq = seen["ip1"]]]
       \/ \E route \in {"GET", "HEALTH"} :
             req = [r \in {1} |-> [IdleReq EXCEPT !.pc = "limiter", !.ip = "ip1",
                                                  !.route = route,
                                                  !.seq = IF route = "GET" THEN seen["ip1"] ELSE 0]]
    /\ clock \in Clocks
    /\ nodeEnv \in Envs
    /\ arrivals = 1
    /\ expiries = 0
    /\ input = << >>
    /\ output = FALSE
    /\ applied = FALSE

NextRequest ==
    \/ \E r \in DOMAIN req : Limiter(r)
    \/ \E r \in DOMAIN req : PaymentLimiter(r)
    \/ \E r \in DOMAIN req, id \in PaymentMethodIds : PaymentMethodResolves(r, id)
    \/ \E r \in DOMAIN req : GatewayRejects(r, CardDeclined)
    \/ \E r \in DOMAIN req : PaymentIntentResolves(r)
    \/ \E r \in DOMAIN req : RetrieveResolves(r, 10000)
    \/ \E r \in DOMAIN req : RetrieveRejects(r, NoSuchIntent)
    \/ \E r \in DOMAIN req : CatchLimiterFirst(r)
    \/ \E r \in DOMAIN req : CatchNextFirst(r)
    \/ \E r \in DOMAIN req : FailedLimiterDeferred(r)

SpecRequest == InitRequest /\ [][NextRequest]_vars

\* ------------------------------------------------------------------------
\* Two requests in flight at once: their steps interleave at every await.
\* The requests are POSTs of one IP that fail in the handler, so that each
\* passes all three limiters within one window of each store; the stores
\* start empty or Headroom below their limits.
\* ------------------------------------------------------------------------
InitConcurrent ==
    /\ \E a \in {0, limiterMax - Headroom} :
          appHits = [ip \in IPs |-> IF ip = "ip1" THEN a ELSE 0]
    /\ \E p \in {0, paymentMax - Headroom} :
          /\ payHits = [ip \in IPs |-> IF ip = "ip1" THEN p ELSE 0]
          /\ seen = payHits
    /\ \E f \in {0, failedMax - Headroom} :
          failHits = [ip \in IPs |-> IF ip = "ip1" THEN f ELSE 0]
    /\ admitted = AllAdmitted
    /\ req = [r \in {1, 2} |-> IdleReq]
    /\ clock \in Clocks
    /\ nodeEnv = "development"
    /\ arrivals = 0
    /\ expiries = 0
    /\ input = << >>
    /\ output = FALSE
    /\ applied = FALSE

NextConcurrent ==
    \/ \E r \in DOMAIN req : Arrive(r, "ip1", "POST", BankNoCardBody)
    \/ \E r \in DOMAIN req : Limiter(r)
    \/ \E r \in DOMAIN req : PaymentLimiter(r)
    \/ \E r \in DOMAIN req : CatchLimiterFirst(r)
    \/ \E r \in DOMAIN req : CatchNextFirst(r)
    \/ \E r \in DOMAIN req : FailedLimiterDeferred(r)
    \/ \E r \in DOMAIN req : Finish(r)

SpecConcurrent == InitConcurrent /\ [][NextConcurrent]_vars

\* ------------------------------------------------------------------------
\* The windows of the stores: failing POSTs of one IP, one at a time, and
\* the stores starting empty or Headroom below their limits, each on its own
\* ------------------------------------------------------------------------
InitWindow ==
    /\ \E a \in {0, limiterMax - Headroom} :
          appHits = [ip \in IPs |-> IF ip = "ip1" THEN a ELSE 0]
    /\ \E p \in {0, paymentMax - Headroom} :
          /\ payHits = [ip \in IPs |-> IF ip = "ip1" THEN p ELSE 0]
          /\ seen = payHits
    /\ \E f \in {0, failedMax - Headroom} :
          failHits = [ip \in IPs |-> IF ip = "ip1" THEN f ELSE 0]
    /\ admitted = AllAdmitted
    /\ req = [r \in {1} |-> IdleReq]
    /\ clock \in Clocks
    /\ nodeEnv = "development"
    /\ arrivals = 0
    /\ expiries = 0
    /\ input = << >>
    /\ output = FALSE
    /\ applied = FALSE

NextWindow ==
    \/ \E r \in DOMAIN req, ip \in IPs : Arrive(r, ip, "POST", BankNoCardBody)
    \/ \E r \in DOMAIN req : Limiter(r)
    \/ \E r \in DOMAIN req : PaymentLimiter(r)
    \/ \E r \in DOMAIN req : CatchLimiterFirst(r)
    \/ \E r \in DOMAIN req : CatchNextFirst(r)
    \/ \E r \in DOMAIN req : FailedLimiterDeferred(r)
    \/ \E tier \in Tiers : WindowExpire(tier)
    \/ \E r \in DOMAIN req : Finish(r)

SpecWindow == InitWindow /\ [][NextWindow]_vars

\* ------------------------------------------------------------------------
\* Requests of two IPs, one at a time: POSTs that succeed, are declined or
\* fail in the handler, and GETs, over the windows of the stores
\* ------------------------------------------------------------------------
InitFrame ==
    /\ \E g \in {0, paymentMax - Headroom} :
          /\ appHits = [ip \in IPs |-> IF ip = "ip1" THEN g ELSE 0]
          /\ payHits = appHits
          /\ seen = appHits
    /\ \E f \in {0, failedMax - Headroom} :
          failHits = [ip \in IPs |-> IF ip = "ip2" THEN f ELSE 0]
    /\ admitted = AllAdmitted
    /\ req = [r \in {1} |-> IdleReq]
    /\ clock \in Clocks
    /\ nodeEnv = "development"
    /\ arrivals = 0
    /\ expiries = 0
    /\ input = << >>
    /\ output = FALSE
    /\ applied = FALSE

NextFrame ==
    \/ \E r \in DOMAIN req, ip \in IPs, body \in {GoodCardBody, BankNoCardBody} :
          Arrive(r, ip, "POST", body)
    \/ \E r \in DOMAIN req, ip \in IPs : Arrive(r, ip, "GET", EmptyBody)
    \/ \E r \in DOMAIN req : Limiter(r)
    \/ \E r \in DOMAIN req : PaymentLimiter(r)
    \/ \E r \in DOMAIN req, id \in PaymentMethodIds : PaymentMethodResolves(r, id)
    \/ \E r \in DOMAIN req : GatewayRejects(r, CardDeclined)
    \/ \E r \in DOMAIN req : PaymentIntentResolves(r)
    \/ \E r \in DOMAIN req : RetrieveResolves(r, 10000)
    \/ \E r \in DOMAIN req : RetrieveRejects(r, NoSuchIntent)
    \/ \E r \in DOMAIN req : CatchLimiterFirst(r)
    \/ \E r \in DOMAIN req : CatchNextFirst(r)
    \/ \E r \in DOMAIN req : FailedLimiterDeferred(r)
    \/ \E tier \in Tiers : WindowExpire(tier)
    \/ \E r \in DOMAIN req : Finish(r)

SpecFrame == InitFrame /\ [][NextFrame]_vars

\* ------------------------------------------------------------------------
\* The validators applied on their own
\* ------------------------------------------------------------------------
Quiet == UNCHANGED <<appHits, payHits, failHits, seen, req, clock, nodeEnv, arrivals,
                     expiries, admitted, input>>

InitQuiet ==
    /\ appHits = [ip \in IPs |-> 0]
    /\ payHits = [ip \in IPs |-> 0]
    /\ failHits = [ip \in IPs |-> 0]
    /\ seen = [ip \in IPs |-> 0]
    /\ admitted = AllAdmitted
    /\ req = [r \in {1} |-> IdleReq]
    /\ clock \in Clocks
    /\ nodeEnv = "development"
    /\ arrivals = 0
    /\ expiries = 0
    /\ applied = FALSE

InitValidate ==
    /\ InitQuiet
    /\ input \in RequestBodies
    /\ output = NoOutput

ApplyValidatePayment ==
    /\ ~applied
    /\ output' = validatePayment(input, clock)
    /\ applied' = TRUE
    /\ Quiet

SpecValidate == InitValidate /\ [][ApplyValidatePayment]_vars

\* expiry dates: every MM/YY with a month of the calendar, against dates in
\* several centuries and at both ends of the year
TwoDigits(k) == <<DigitChar(k \div 10), DigitChar(k % 10)>>
ExpiryStrings == {TwoDigits(mm) \o <<"/">> \o TwoDigits(yy) : mm \in 1..12, yy \in 0..99}
ExpiryClocks == {[year |-> y, month |-> m] : y \in {1999, 2000, 2026, 2099, 2100},
                                              m \in {1, 6, 12}}

InitExpiry ==
    /\ appHits = [ip \in IPs |-> 0]
    /\ payHits = [ip \in IPs |-> 0]
    /\ failHits = [ip \in IPs |-> 0]
    /\ seen = [ip \in IPs |-> 0]
    /\ admitted = AllAdmitted
    /\ req = [r \in {1} |-> IdleReq]
    /\ clock \in ExpiryClocks
    /\ nodeEnv = "development"
    /\ arrivals = 0
    /\ expiries = 0
    /\ applied = FALSE
    /\ input \in ExpiryStrings
    /\ output = FALSE

ApplyValidateExpiryDate ==
    /\ ~applied
    /\ output' = validateExpiryDate(input, clock)
    /\ applied' = TRUE
    /\ Quiet

SpecExpiry == InitExpiry /\ [][ApplyValidateExpiryDate]_vars

\* CVV values: the strings of digits, a letter and a space up to MaxCvvLen,
\* and values that are not strings
CvvChars == {"0", "1", "9", "a", " "}
CvvStrings == UNION {[1..n -> CvvChars] : n \in 0..MaxCvvLen}
CvvInputs ==
    {Str(cs) : cs \in CvvStrings}
        \cup {Undefined, Null, Num(123000), Num(12000), Num(12345000), Num(1500)}

InitCvv ==
    /\ InitQuiet
    /\ input \in CvvInputs
    /\ output = FALSE

ApplyValidateCVV ==
    /\ ~applied
    /\ output' = validateCVV(input)
    /\ applied' = TRUE
    /\ Quiet

SpecCvv == InitCvv /\ [][ApplyValidateCVV]_vars

\* errors handed to the error handler: every name with every status
\* property (0: none) and message, in every environment
ErrorNames ==
    {"Error", "TypeError", "ValidationError", "UnauthorizedError", "ForbiddenError",
     "NotFound", "GatewayDeclined", "RateLimitExceeded"}
ErrorStatuses == {0, 400, 402, 404, 418, 429, 500, 503}
ErrorMessages == {"", "boom", "Your card was declined."}
ErrorValues ==
    {Err(n, s, msg) : n \in ErrorNames, s \in ErrorStatuses, msg \in ErrorMessages}
ErrorEnvs == {"production", "development", "test", ""}

InitError ==
    /\ appHits = [ip \in IPs |-> 0]
    /\ payHits = [ip \in IPs |-> 0]
    /\ failHits = [ip \in IPs |-> 0]
    /\ seen = [ip \in IPs |-> 0]
    /\ admitted = AllAdmitted
    /\ req = [r \in {1} |-> IdleReq]
    /\ clock \in Clocks
    /\ nodeEnv \in ErrorEnvs
    /\ arrivals = 0
    /\ expiries = 0
    /\ applied = FALSE
    /\ input \in ErrorValues
    /\ output = NoOutput

ApplyErrorHandler ==
    /\ ~applied
    /\ output' = errorHandler(input, nodeEnv)
    /\ applied' = TRUE
    /\ Quiet

SpecError == InitError /\ [][ApplyErrorHandler]_vars

\* card numbers: the strings of digits, spaces and dashes up to MaxCardLen
CardChars == DigitChars \cup {" ", "-"}
CardStrings == UNION {[1..n -> CardChars] : n \in 0..MaxCardLen}

InitCard ==
    /\ InitQuiet
    /\ input \in CardStrings
    /\ output = FALSE

ApplyValidateCreditCard ==
    /\ ~applied
    /\ output' = validateCreditCard(input)
    /\ applied' = TRUE
    /\ Quiet

SpecCard == InitCard /\ [][ApplyValidateCreditCard]_vars

\* ------------------------------------------------------------------------
\* Properties
\* ------------------------------------------------------------------------
InTrace(rq, e) == \E i \in 1..Len(rq.trace) : rq.trace[i] = e
Called(rq, op) == \E i \in 1..Len(rq.calls) : rq.calls[i].op = op
SentBy(rq, by) == \E i \in 1..Len(rq.sends) : rq.sends[i].by = by

\* C1: createPaymentMethod is invoked for a credit_card request only if
\* cardDetails is present, carries the three fields and each of them passed
\* its validator.
C1_CardValidatedBeforeGateway ==
    \A r \in DOMAIN req :
        LET rq == req[r]
            cd == rq.body.cardDetails
        IN  (rq.route = "POST" /\ rq.body.paymentMethod = Str(credit_card)
               /\ Called(rq, "createPaymentMethod"))
            => /\ cd.t = "object"
               /\ Truthy(cd.cardNumber) /\ Truthy(cd.expiryDate) /\ Truthy(cd.cvv)
               /\ cd.cardNumber.t = "string" /\ validateCreditCard(cd.cardNumber.s)
               /\ cd.expiryDate.t = "string" /\ validateExpiryDate(cd.expiryDate.s, clock)
               /\ validateCVV(cd.cvv)

C1_Witness ==
    \E r \in DOMAIN req :
        /\ req[r].route = "POST"
        /\ req[r].body.paymentMethod = Str(credit_card)
        /\ Called(req[r], "createPaymentMethod")

\* C2: a request refused by the app limiter, by paymentLimiter (429) or by
\* validatePayment (400) causes no gateway call; a gateway call is made only
\* after both limiters and, for POST, the validator let the request pass.
C2_RejectedNeverReachesGateway ==
    \A r \in DOMAIN req :
        LET rq == req[r]
        IN  rq.calls # << >>
            => /\ InTrace(rq, "limiter:next")
               /\ InTrace(rq, "paymentLimiter:next")
               /\ rq.route = "POST" => InTrace(rq, "validatePayment:next")
               /\ ~SentBy(rq, "limiter")
               /\ ~SentBy(rq, "paymentLimiter")
               /\ ~SentBy(rq, "validatePayment")

C2_Witness ==
    \E r \in DOMAIN req :
        /\ req[r].pc = "done"
        /\ req[r].route = "POST"
        /\ Wire(req[r]).by = "validatePayment"
        /\ Wire(req[r]).status = 400
        /\ req[r].calls = << >>

\* C3: a failed payment attempt that the failed-attempt limiter counts as
\* the sixth or later of its window is answered 429 with the failed-attempt
\* message.
C3_SixthFailedAttemptAnswered429 ==
    \A r \in DOMAIN req :
        LET rq == req[r]
        IN  (rq.pc = "done" /\ rq.failTotal > failedMax)
            => /\ Wire(rq).status = 429
               /\ Wire(rq).shape = "flat"
               /\ Wire(rq).error = MsgTooManyFailed

\* C4: the 101st and every further payment-route request of an IP in the
\* window is answered 429 with the message of paymentLimiter.
C4_Over100AnsweredWithPaymentMessage ==
    \A r \in DOMAIN req :
        LET rq == req[r]
        IN  (rq.pc = "done" /\ rq.route \in {"POST", "GET"} /\ rq.seq > paymentMax)
            => /\ Wire(rq).status = 429
               /\ Wire(rq).shape = "flat"
               /\ Wire(rq).error = MsgTooManyPayment

\* C5: every failed payment attempt is counted by the failed-attempt
\* limiter, a rejection by the validator (400) as well as a failure at the
\* gateway.
C5_EveryFailedAttemptCounted ==
    \A r \in DOMAIN req :
        LET rq == req[r]
        IN  (rq.pc = "done" /\ rq.route = "POST"
               /\ (InTrace(rq, "validatePayment:400") \/ InTrace(rq, "catch")))
            => rq.failTotal > 0

\* C6: the error handler answers a failure of the POST handler only after
\* the failed-attempt limiter has counted the attempt.
C6_LimiterCountsBeforeErrorHandler ==
    \A r \in DOMAIN req :
        LET rq == req[r]
        IN  (rq.route = "POST" /\ InTrace(rq, "catch") /\ SentBy(rq, "errorHandler"))
            => rq.failTotal > 0

\* the checks of the request validator as the specification lists them: a
\* field is present when the body carries a value for it
Supplied(v) == v.t \notin {"undefined", "null"}
PositiveNumber(v) == v.t = "number" /\ v.n > 0
CardComplete(cd) == Supplied(cd.cardNumber) /\ Supplied(cd.expiryDate) /\ Supplied(cd.cvv)

FirstFailingCheck(body, now) ==
    LET cd == body.cardDetails
    IN  IF ~(Supplied(body.amount) /\ Supplied(body.currency) /\ Supplied(body.paymentMethod))
        THEN MsgMissing
        ELSE IF ~PositiveNumber(body.amount) THEN MsgAmount
        ELSE IF body.currency \notin {Str(USD), Str(EUR), Str(GBP)} THEN MsgCurrency
        ELSE IF body.paymentMethod \notin {Str(credit_card), Str(bank_transfer)}
        THEN MsgMethod
        ELSE IF body.paymentMethod # Str(credit_card) THEN ""
        ELSE IF cd.t # "object" THEN MsgCardRequired
        ELSE IF ~CardComplete(cd) THEN MsgCardIncomplete
        ELSE IF cd.cardNumber.t # "string" \/ ~validateCreditCard(cd.cardNumber.s)
        THEN MsgCardNumber
        ELSE IF cd.expiryDate.t # "string" \/ ~validateExpiryDate(cd.expiryDate.s, now)
        THEN MsgExpiry
        ELSE IF ~validateCVV(cd.cvv) THEN MsgCVV
        ELSE ""

\* C7: the 400 response of validatePayment carries the message of the first
\* check, in the listed order, that the body fails.
C7_FirstFailingCheckDecidesMessage ==
    (applied /\ output.kind = "respond")
    => output.error = FirstFailingCheck(input, clock)

\* C8: validatePayment either calls next() or sends one 400 response with an
\* error message, for every body.
C8_NextOrSingle400 ==
    applied
    => \/ output.kind = "next"
       \/ output.kind = "respond" /\ output.status = 400 /\ output.error # ""

\* C9: with amount, currency and paymentMethod supplied and amount not a
\* positive number, the answer is 400 'Amount must be a positive number'.
C9_NonPositiveAmountMessage ==
    (/\ applied
     /\ Supplied(input.amount) /\ Supplied(input.currency) /\ Supplied(input.paymentMethod)
     /\ ~PositiveNumber(input.amount))
    => /\ output.kind = "respond"
       /\ output.status = 400
       /\ output.error = MsgAmount

\* the Luhn predicate of a digit string, position by position from the left
RefDigits(cs) == SelectSeq(cs, LAMBDA c : c \in DigitChars)
RefLuhnTerm(ds, i) ==
    LET d == DigitVal(ds[i])
        second == (Len(ds) - i) % 2 = 1
    IN  IF ~second THEN d ELSE IF 2 * d > 9 THEN 2 * d - 9 ELSE 2 * d
RECURSIVE RefLuhnSum(_, _)
RefLuhnSum(ds, i) == IF i > Len(ds) THEN 0 ELSE RefLuhnTerm(ds, i) + RefLuhnSum(ds, i + 1)
RefLuhn(cs) == RefLuhnSum(RefDigits(cs), 1) % 10 = 0

\* C10: on every string of digits, spaces and dashes validateCreditCard is
\* the Luhn predicate of its digits; 4242424242424242 passes and
\* 4242424242424241 fails.
C10_LuhnAgreesWithReference ==
    /\ applied => (output <=> RefLuhn(input))
    /\ applied => (validateCreditCard(Chars4242) /\ RefLuhn(Chars4242))
    /\ applied => (~validateCreditCard(Chars4241) /\ ~RefLuhn(Chars4241))

C10_Witness ==
    /\ applied
    /\ output
    /\ input = <<"5", "-", "9">>

\* ------------------------------------------------------------------------
\* C11.  For every expiry value MM/YY and every current date,
\* validateExpiryDate returns false exactly when (YY, MM) comes strictly
\* before (current year mod 100, current month) in year-then-month order,
\* and true otherwise.
\* ------------------------------------------------------------------------
\* the fields of an MM/YY string read digit by digit
FieldMonth(cs) == DigitVal(cs[1]) * 10 + DigitVal(cs[2])
FieldYear(cs) == DigitVal(cs[4]) * 10 + DigitVal(cs[5])
StrictlyBefore(cs, now) ==
    FieldYear(cs) * 12 + FieldMonth(cs) < (now.year % 100) * 12 + now.month

C11_ExpiredExactlyWhenStrictlyBefore ==
    applied => (output = FALSE <=> StrictlyBefore(input, clock))

\* the month of the current date itself is accepted
C11_Witness ==
    /\ applied
    /\ FieldYear(input) = clock.year % 100
    /\ FieldMonth(input) = clock.month
    /\ output = TRUE
\* ------------------------------------------------------------------------
\* C12.  Every expiryDate the request validator accepts is in MM/YY format
\* (two parts, a month 1..12, a two-digit year); a value with no '/', a
\* non-numeric part or a month outside 1..12 is rejected with 400 'Card has
\* expired or invalid expiry date'.
\* ------------------------------------------------------------------------
MMYY(v) ==
    /\ v.t = "string"
    /\ Len(v.s) = 5
    /\ v.s[3] = "/"
    /\ \A i \in {1, 2, 4, 5} : v.s[i] \in DigitChars
    /\ FieldMonth(v.s) \in 1..12

\* the checks before the expiry date pass
ReachesExpiryCheck(body) ==
    /\ PositiveNumber(body.amount)
    /\ body.currency \in {Str(USD), Str(EUR), Str(GBP)}
    /\ body.paymentMethod = Str(credit_card)
    /\ Truthy(body.cardDetails)
    /\ body.cardDetails.cardNumber = Str(Chars4242)
    /\ body.cardDetails.expiryDate.t = "string"
    /\ Truthy(body.cardDetails.cvv)

C12_AcceptedExpiryIsMMYY ==
    (applied /\ ReachesExpiryCheck(input)) =>
        /\ output.kind = "next" => MMYY(input.cardDetails.expiryDate)
        /\ ~MMYY(input.cardDetails.expiryDate) =>
              (output.kind = "respond" /\ output.status = 400 /\ output.error = MsgExpiry)
\* ------------------------------------------------------------------------
\* C13.  validateCVV returns true exactly for the values consisting of 3 or
\* 4 decimal digits and nothing else, and false for every other value
\* (shorter, longer, or containing a character that is not a digit).
\* ------------------------------------------------------------------------
\* the text of a value, as the pattern is matched against it
TextOf(v) == IF v.t = "string" THEN v.s ELSE ToChars(v)
ThreeOrFourDigits(cs) == cs \in [1..3 -> DigitChars] \cup [1..4 -> DigitChars]

C13_CvvExactlyThreeOrFourDigits ==
    applied => (output = TRUE <=> ThreeOrFourDigits(TextOf(input)))

\* a string of five digits is refused
C13_Witness ==
    /\ applied
    /\ input.t = "string"
    /\ Len(input.s) = 5
    /\ \A i \in 1..5 : input.s[i] \in DigitChars
    /\ output = FALSE
\* ------------------------------------------------------------------------
\* C14.  Under any interleaving of concurrent requests from the same IP,
\* each rate-limit counter is updated by an atomic increment-and-check: no
\* increment is lost, and the number of requests from that IP a tier admits
\* within one window never exceeds the tier's limit (100 general, 5 failed
\* attempts).
\* ------------------------------------------------------------------------
HitsOf(tier) ==
    CASE tier = "limiter" -> appHits [] tier = "payment" -> payHits [] tier = "failed" -> failHits

\* two requests of one IP counted by a tier in the same window were counted
\* apart, and the store holds at least what any request of the window saw
NoLostIncrement ==
    \A tier \in Tiers : \A r1, r2 \in DOMAIN req :
        LET c1 == req[r1].rateLimit[tier]
            c2 == req[r2].rateLimit[tier]
        IN  /\ (r1 # r2 /\ req[r1].ip = req[r2].ip /\ c1.current > 0 /\ c2.current > 0
                 /\ c1.window = c2.window) => c1.current # c2.current
            /\ (c1.current > 0 /\ c1.window = expiries) => HitsOf(tier)[req[r1].ip] >= c1.current

NextEventOf(tier) ==
    CASE tier = "limiter" -> "limiter:next"
      [] tier = "payment" -> "paymentLimiter:next"
      [] tier = "failed" -> "failedPaymentLimiter:next"

\* a step in which a window ends leaves no hit in that store and touches no
\* other store
ExpiryDropsHits ==
    expiries' # expiries =>
        \E tier \in Tiers :
            /\ HitsOf(tier)' = [ip \in IPs |-> 0]
            /\ \A other \in Tiers \ {tier} : HitsOf(other)' = HitsOf(other)

\* a step in which a tier counts a request of an IP it holds no hits for
\* counts it as the first and passes it on
FirstAfterExpiryAdmitted ==
    \A r \in DOMAIN req : \A tier \in Tiers :
        (/\ req[r].rateLimit[tier].current = 0
         /\ req'[r].rateLimit[tier].current > 0
         /\ HitsOf(tier)[req'[r].ip] = 0)
            => /\ req'[r].rateLimit[tier].current = 1
               /\ PassedOn(req'[r], NextEventOf(tier))

StageOrder ==
    <<"limiter:next", "paymentLimiter:next", "validatePayment:next",
      "createPaymentMethod", "createPaymentIntent", "201">>

\* the k-th stage, once entered, was entered right after the k-1 before it
InStageOrder(rq) ==
    \A k \in 1..Len(StageOrder) :
        InTrace(rq, StageOrder[k]) =>
            /\ Len(rq.trace) >= k
            /\ SubSeq(rq.trace, 1, k) = SubSeq(StageOrder, 1, k)

C16_StagesInOrder ==
    \A r \in DOMAIN req :
        LET rq == req[r]
        IN  rq.route = "POST" =>
              /\ InStageOrder(rq)
              /\ Called(rq, "createPaymentIntent") =>
                    /\ Len(rq.calls) = 2
                    /\ rq.calls[1].op = "createPaymentMethod"
                    /\ rq.stripePaymentMethod \in PaymentMethodIds
                    /\ rq.calls[2].ref = rq.stripePaymentMethod
              /\ SentBy(rq, "post") =>
                    /\ rq.paymentIntent # ""
                    /\ Called(rq, "createPaymentIntent")
                    /\ rq.sends = <<Wire(rq)>>
                    /\ Wire(rq).status = 201 /\ Wire(rq).shape = "data"

\* a 201 for a payment method the gateway named pm_2
C16_Witness ==
    \E r \in DOMAIN req :
        /\ req[r].route = "POST"
        /\ req[r].pc = "done"
        /\ SentBy(req[r], "post")
        /\ req[r].stripePaymentMethod = "pm_2"
        /\ req[r].trace = StageOrder
\* ------------------------------------------------------------------------
\* C17.  Gateway calls are single-attempt: each of createPaymentMethod,
\* createPaymentIntent and retrievePaymentIntent is invoked at most once per
\* request, and after one of them fails no further gateway call is made for
\* that request; the failure is surfaced to the handler's error path.
\* ------------------------------------------------------------------------
GatewayOps == {"createPaymentMethod", "createPaymentIntent", "retrievePaymentIntent"}
GatewayErrors == {CardDeclined, NoSuchIntent}
CallsOf(rq, op) == {i \in 1..Len(rq.calls) : rq.calls[i].op = op}
CallEvents(rq) == {i \in 1..Len(rq.trace) : rq.trace[i] \in GatewayOps}
\* where the error path of a handler begins: the catch block of the POST
\* handler, next(error) of the GET handler
ErrorPathEvents(rq) ==
    {i \in 1..Len(rq.trace) :
        rq.trace[i] = IF rq.route = "POST" THEN "catch" ELSE "errorHandler"}

C17_GatewayCallsSingleAttempt ==
    \A r \in DOMAIN req :
        LET rq == req[r]
        IN  /\ \A op \in GatewayOps : Cardinality(CallsOf(rq, op)) <= 1
            /\ Cardinality(CallEvents(rq)) = Len(rq.calls)
            /\ rq.err \in GatewayErrors =>
                  /\ ErrorPathEvents(rq) # {}
                  /\ \A i \in ErrorPathEvents(rq) : \A j \in CallEvents(rq) : j < i

\* createPaymentIntent was declined after createPaymentMethod succeeded: two
\* calls, and the request ended on the error path
C17_Witness ==
    \E r \in DOMAIN req :
        /\ req[r].pc = "done"
        /\ req[r].err = CardDeclined
        /\ Len(req[r].calls) = 2
        /\ req[r].calls[2].op = "createPaymentIntent"
        /\ InTrace(req[r], "catch")
\* ------------------------------------------------------------------------
\* C18.  For every successful POST (the gateway echoing the minor-unit
\* amount submitted to it) the amount of the 201 response equals the amount
\* of the request: converting to minor units (the nearest integer to
\* amount x 100) and dividing by 100 is the identity on every accepted
\* amount.
\* ------------------------------------------------------------------------
Answered201(rq) == rq.route = "POST" /\ rq.pc = "done" /\ SentBy(rq, "post")
Distance(a, b) == IF a >= b THEN a - b ELSE b - a

\* as claimed: the identity on every accepted amount
C18_AmountRoundTripIdentity ==
    \A r \in DOMAIN req :
        Answered201(req[r]) => Wire(req[r]).amount = req[r].body.amount.n

\* as the handler has it: the identity on the amounts that are a whole number
\* of minor units, and within half a minor unit of any accepted amount
C18_AmountRoundTripToMinorUnit ==
    \A r \in DOMAIN req :
        LET rq == req[r]
            amount == rq.body.amount.n
        IN  Answered201(rq) =>
              /\ amount % 10 = 0 => Wire(rq).amount = amount
              /\ Wire(rq).amount % 10 = 0
              /\ Distance(Wire(rq).amount, amount) <= 5

\* an accepted amount of 10.007 comes back as 10.01
C18_Witness ==
    \E r \in DOMAIN req :
        /\ Answered201(req[r])
        /\ req[r].body.amount.n = 10007
        /\ req[r].calls[2].amount = 1001
        /\ Wire(req[r]).amount = 10010
\* ------------------------------------------------------------------------
\* C19.  GET /api/v1/payments/:paymentIntentId with an id the gateway does
\* not recognise is answered with HTTP 404 'Payment not found'; with a
\* recognised id it is answered 200 with the success envelope.
\* ------------------------------------------------------------------------
C19_UnknownIdAnswered404 ==
    \A r \in DOMAIN req :
        LET rq == req[r]
        IN  (rq.route = "GET" /\ rq.pc = "done" /\ Called(rq, "retrievePaymentIntent")) =>
              IF rq.err = NoSuchIntent
              THEN Wire(rq).status = 404 /\ Wire(rq).error = "Payment not found"
              ELSE Wire(rq).status = 200 /\ Wire(rq).shape = "data"

\* ------------------------------------------------------------------------
\* C20.  A POST whose validated request the gateway declines
\* (createPaymentMethod or createPaymentIntent fails with a decline) is
\* answered with HTTP 402.
\* ------------------------------------------------------------------------
C20_DeclineAnswered402 ==
    \A r \in DOMAIN req :
        LET rq == req[r]
        IN  (rq.route = "POST" /\ rq.pc = "done" /\ rq.err = CardDeclined) =>
              Wire(rq).status = 402
\* ------------------------------------------------------------------------
\* C21.  The error handler maps every error it receives to a status by
\* kind: ValidationError to 400, UnauthorizedError to 401, ForbiddenError to
\* 403, NotFound to 404, GatewayDeclined to 402, RateLimitExceeded to 429,
\* and every other error to 500.
\* ------------------------------------------------------------------------
StatusOfKind(name) ==
    CASE name = "ValidationError" -> 400
      [] name = "UnauthorizedError" -> 401
      [] name = "ForbiddenError" -> 403
      [] name = "NotFound" -> 404
      [] name = "GatewayDeclined" -> 402
      [] name = "RateLimitExceeded" -> 429
      [] OTHER -> 500

C21_StatusByKind == applied => output.status = StatusOfKind(input.name)

\* ------------------------------------------------------------------------
\* C22.  In the error handler's response the message of a status-500 error
\* is replaced by 'Internal Server Error' when NODE_ENV is production; in
\* every other environment, and for every error kind, the message in the
\* response is the original message of the error.
\* ------------------------------------------------------------------------
Masked == nodeEnv = "production" /\ output.status = 500

NamedKinds == {"ValidationError", "UnauthorizedError", "ForbiddenError"}
FixedMessage(name) ==
    CASE name = "ValidationError" -> "Validation Error"
      [] name = "UnauthorizedError" -> "Unauthorized"
      [] name = "ForbiddenError" -> "Forbidden"

CardFieldsOf(body) ==
    IF ~Truthy(body.cardDetails) THEN {}
    ELSE {f \in {"cardNumber", "expiryDate", "cvv"} :
            Supplied(CASE f = "cardNumber" -> body.cardDetails.cardNumber
                       [] f = "expiryDate" -> body.cardDetails.expiryDate
                       [] f = "cvv" -> body.cardDetails.cvv)}

\* the card fields whose value is part of the metadata of the log entry
CardContentsLogged(body, logged) ==
    IF logged \cap {"body", "cardDetails"} # {} THEN CardFieldsOf(body)
    ELSE logged \cap CardFieldsOf(body)

C23_RejectionLoggedWithoutCardContents ==
    applied =>
        /\ output.kind = "respond" => output.log # ""
        /\ CardContentsLogged(input, output.logged) = {}
\* ------------------------------------------------------------------------
\* C24.  Every cardNumber the request validator accepts is, after removal
\* of spaces and dashes, a non-empty string of decimal digits only; a value
\* that contains no digit at all (for example only separators) or any other
\* character is rejected with 'Invalid card number'.
\* ------------------------------------------------------------------------
IsSeparator(c) == c \in {" ", "-"}
WithoutSeparators(cs) == SelectSeq(cs, LAMBDA c : ~IsSeparator(c))
DigitString(cs) ==
    LET clean == WithoutSeparators(cs)
    IN  clean # << >> /\ \A i \in 1..Len(clean) : clean[i] \in DigitChars

\* the checks before the card number pass and the card number is a string
ReachesCardNumberCheck(body) ==
    /\ PositiveNumber(body.amount)
    /\ body.currency \in {Str(USD), Str(EUR), Str(GBP)}
    /\ body.paymentMethod = Str(credit_card)
    /\ Truthy(body.cardDetails)
    /\ body.cardDetails.cardNumber.t = "string"
    /\ Truthy(body.cardDetails.cardNumber)
    /\ Truthy(body.cardDetails.expiryDate)
    /\ Truthy(body.cardDetails.cvv)

C24_AcceptedCardNumberIsDigitString ==
    (applied /\ ReachesCardNumberCheck(input)) =>
        /\ output.kind = "next" => DigitString(input.cardDetails.cardNumber.s)
        /\ ~DigitString(input.cardDetails.cardNumber.s) =>
              (output.kind = "respond" /\ output.status = 400
                 /\ output.error = MsgCardNumber)
\* ------------------------------------------------------------------------
\* C25.  Every request admitted to POST /api/v1/payments receives exactly
\* one HTTP response: on no path (201, 400, failure in the handler with the
\* failed-attempt limiter consulted and the error handler invoked) do two
\* components both send a response for the same request, and next() is not
\* invoked both with and without an error for the same request.
\* ------------------------------------------------------------------------
C25_ExactlyOneResponse ==
    \A r \in DOMAIN req :
        LET rq == req[r]
        IN  (rq.route = "POST" /\ InTrace(rq, "paymentLimiter:next")) =>
              /\ Len(rq.sends) <= 1
              /\ rq.pc = "done" => Len(rq.sends) = 1
              /\ ~(InTrace(rq, "next(error)") /\ InTrace(rq, "failedPaymentLimiter:next"))
\* ------------------------------------------------------------------------
\* C26.  Once the failed-attempt counter of an IP has exceeded 5 within its
\* 60-minute window, no further POST /api/v1/payments of that IP reaches the
\* gateway (createPaymentMethod) until the window resets; within one window
\* at most 5 payment attempts of one IP can fail at the gateway.
\* ------------------------------------------------------------------------
\* a request waiting for createPaymentMethod was handed to the gateway with
\* the store as it is: hits are added only by the request in flight
C26_NoGatewayCallAboveFailedLimit ==
    \A r \in DOMAIN req :
        (req[r].route = "POST" /\ req[r].pc = "awaitPaymentMethod")
            => failHits[req[r].ip] <= 5
\* ------------------------------------------------------------------------
\* C27.  Whatever the paymentMethod of the request (credit_card or
\* bank_transfer), the card number, expiry and CVV that the POST handler
\* submits to the gateway's createPaymentMethod have passed
\* validateCreditCard, validateExpiryDate and validateCVV.
\* ------------------------------------------------------------------------
C27_SubmittedCardValidated ==
    \A r \in DOMAIN req :
        LET rq == req[r]
            cd == rq.body.cardDetails
        IN  (rq.route = "POST" /\ Called(rq, "createPaymentMethod")) =>
              LET card == rq.calls[1].card
              IN  /\ card.number.t = "string" /\ validateCreditCard(card.number.s)
                  /\ cd.expiryDate.t = "string" /\ validateExpiryDate(cd.expiryDate.s, clock)
                  /\ validateCVV(card.cvc)
\* ------------------------------------------------------------------------
\* C28.  Every request that validatePayment lets proceed, including a
\* paymentMethod=bank_transfer request without cardDetails, reaches the
\* first gateway call: the POST handler never fails before invoking
\* createPaymentMethod, so every error on the POST error path originates
\* from the gateway.
\* ------------------------------------------------------------------------
C28_ProceedingRequestReachesGateway ==
    \A r \in DOMAIN req :
        LET rq == req[r]
        IN  rq.route = "POST" =>
              /\ InTrace(rq, "validatePayment:next") => Called(rq, "createPaymentMethod")
              /\ InTrace(rq, "catch") => rq.err = CardDeclined
\* ------------------------------------------------------------------------
\* C29.  Only requests entering the payment routes consume an IP's general
\* allowance: an IP that has made fewer than 100 payment-route requests in
\* the current 15-minute window is never answered 429 on a payment route,
\* however many requests it made to other routes such as GET /health.
\* ------------------------------------------------------------------------
\* seq numbers the payment-route requests of an IP within the window
C29_HealthRequestsLeaveAllowance ==
    \A r \in DOMAIN req :
        LET rq == req[r]
        IN  (rq.route \in {"POST", "GET"} /\ rq.seq <= 100) =>
              ~SentBy(rq, "limiter") /\ ~SentBy(rq, "paymentLimiter")
\* ------------------------------------------------------------------------
\* C30.  The failed-attempt counter of an IP changes only by a POST
\* /api/v1/payments of that same IP failing inside the handler (increment
\* by exactly one) or by expiry of its window: POSTs answered 201, requests
\* answered 429 by the general limiter, GET /api/v1/payments/:id requests
\* (successful or failing) and all requests of other IPs leave it
\* unchanged, and the general counter is left unchanged by a failed-attempt
\* increment.
\* ------------------------------------------------------------------------
\* the step counts a POST of the IP that has entered the catch block
FailedAttemptOf(ip) ==
    \E r \in DOMAIN req :
        /\ req[r].ip = ip /\ req[r].route = "POST"
        /\ InTrace(req[r], "catch")
        /\ ~SentBy(req[r], "post")
        /\ req[r].rateLimit.failed.current = 0
        /\ req'[r].rateLimit.failed.current = failHits[ip] + 1

FailedCounterFrame ==
    \A ip \in IPs :
        failHits'[ip] # failHits[ip] =>
            \/ /\ failHits'[ip] = 0
               /\ expiries' = expiries + 1
               /\ req' = req
            \/ /\ failHits'[ip] = failHits[ip] + 1
               /\ FailedAttemptOf(ip)
               /\ \A other \in IPs \ {ip} : failHits'[other] = failHits[other]
               /\ appHits' = appHits /\ payHits' = payHits

C30_FailedCounterFrame == [][FailedCounterFrame]_vars

\* ip1 failed once in the handler and ip2 was answered 201 since: the store
\* holds one failed attempt of ip1 and none of ip2
C30_Witness ==
    \E r \in DOMAIN req :
        /\ req[r].ip = "ip2" /\ req[r].pc = "done" /\ SentBy(req[r], "post")
        /\ failHits = [ip \in IPs |-> IF ip = "ip1" THEN 1 ELSE 0]
        /\ expiries = 0
====
